---- MODULE Spec2Model ----
(***************************************************************************)
(* A model of src/ds/BinarySearchTree.js: an unbalanced binary search tree *)
(* with parent links, an element count and a caller-supplied ordering.     *)
(*                                                                         *)
(* Objects live in a heap indexed by object id.  Ids in Nodes are BSTNode  *)
(* instances; ids in Placeholders are the object literals `{left: root}`   *)
(* that remove() creates when it deletes the root.  A field an object does *)
(* not have reads as UNDEF, as in JavaScript.                              *)
(***************************************************************************)
EXTENDS Integers, Sequences, FiniteSets

\* ---- bounds ----
MaxNodes == 4          \* BSTNode objects that can be alive at once
MaxVal == 3            \* values are 1..MaxVal
MaxInserts == 4        \* insert calls in one behaviour (constructor included)
MaxInitLen == 2        \* longest list handed to the constructor
NumPlaceholders == 2   \* object literals `{left: root}` available to remove()

\* ---- JavaScript's non-values ----
NULL == -1             \* null
UNDEF == -2            \* undefined (also: a missing property, no return)
THROWN == -3           \* the call ended in a TypeError

Nodes == 1..MaxNodes
Placeholders == (MaxNodes + 1)..(MaxNodes + NumPlaceholders)
Objs == Nodes \cup Placeholders
Values == 1..MaxVal
CmpKinds == {"lt", "gt"}

\* roundTrip: the last call was remove(v) directly after an insert(v) of a
\* value v that search did not find before that insert
VARIABLES root, cmp, length, value, parent, left, right,
          op, arg, ret, retArr, pre, nIns, nRem, roundTrip

vars == <<root, cmp, length, value, parent, left, right,
          op, arg, ret, retArr, pre, nIns, nRem, roundTrip>>

\* the tree object and the heap behind it, as one value
this == [root |-> root, cmp |-> cmp, length |-> length, value |-> value,
         parent |-> parent, left |-> left, right |-> right]

\* `if (x)` on a reference
Truthy(x) == x # NULL /\ x # UNDEF

\* the operands of < and > as numbers: null converts to 0
ToNumber(a) == IF a = NULL THEN 0 ELSE a

\* this.cmp(a, b): the default (a, b) => a < b, or a caller's descending
\* order; undefined converts to NaN, and every comparison with NaN is false
Cmp(t, a, b) ==
  IF a = UNDEF \/ b = UNDEF THEN FALSE
  ELSE IF t.cmp = "lt" THEN ToNumber(a) < ToNumber(b)
  ELSE ToNumber(a) > ToNumber(b)

\* objects reachable from the tree through any field
RECURSIVE Closure(_, _)
Closure(t, S) ==
  LET N == S \cup {x \in Objs : \E o \in S :
                     x = t.left[o] \/ x = t.right[o] \/ x = t.parent[o]}
  IN IF N = S THEN S ELSE Closure(t, N)

Live(t) == IF Truthy(t.root) THEN Closure(t, {t.root}) ELSE {}

\* unreachable objects are garbage: they are no part of the program's state
Collect(t) ==
  LET L == Live(t)
      keep(f) == [o \in Objs |-> IF o \in L THEN f[o] ELSE UNDEF]
  IN [t EXCEPT !.value = keep(t.value), !.parent = keep(t.parent),
               !.left = keep(t.left), !.right = keep(t.right)]

FreeNodes(t) == Nodes \ Live(t)
FreshNode(t) == CHOOSE id \in FreeNodes(t) : \A j \in FreeNodes(t) : id <= j
FreePlaceholders(t) == Placeholders \ Live(t)
FreshPlaceholder(t) ==
  CHOOSE id \in FreePlaceholders(t) : \A j \in FreePlaceholders(t) : id <= j

\* the constructor without `this.parent = parent`
BSTNodeNoParent(t, id, v, p) ==
  [t EXCEPT !.value[id] = v, !.parent[id] = NULL,
            !.left[id] = NULL, !.right[id] = NULL]

\* new BSTNode(value, parent)
BSTNode(t, id, v, p) ==
  [t EXCEPT !.value[id] = v, !.parent[id] = p,
            !.left[id] = NULL, !.right[id] = NULL]

RECURSIVE getLeftmostDescendant(_, _)
getLeftmostDescendant(t, n) ==
  IF Truthy(t.left[n]) THEN getLeftmostDescendant(t, t.left[n]) ELSE n

RECURSIVE getRightmostDescendant(_, _)
getRightmostDescendant(t, n) ==
  IF Truthy(t.right[n]) THEN getRightmostDescendant(t, t.right[n]) ELSE n

\* new BinarySearchTree([], cmp) before the list is inserted
EmptyTree(c) ==
  [root |-> NULL, cmp |-> c, length |-> 0,
   value |-> [o \in Objs |-> UNDEF], parent |-> [o \in Objs |-> UNDEF],
   left |-> [o \in Objs |-> UNDEF], right |-> [o \in Objs |-> UNDEF]]

\* insert() sending equal values to the left: `!this.cmp(parent.value, value)`
RECURSIVE insertTiesLeft(_, _, _)
insertTiesLeft(t, v, p) ==
  LET id == FreshNode(t) IN
  IF ~Truthy(t.root)
  THEN [tree |-> [BSTNode(t, id, v, NULL) EXCEPT !.root = id,
                                                 !.length = @ + 1],
        ret |-> t.length + 1]
  ELSE IF ~Cmp(t, t.value[p], v)
  THEN IF t.left[p] = NULL
       THEN [tree |-> [BSTNode(t, id, v, p) EXCEPT !.left[p] = id,
                                                   !.length = @ + 1],
             ret |-> t.length + 1]
       ELSE [tree |-> insertTiesLeft(t, v, t.left[p]).tree, ret |-> UNDEF]
  ELSE IF t.right[p] = NULL
       THEN [tree |-> [BSTNode(t, id, v, p) EXCEPT !.right[p] = id,
                                                   !.length = @ + 1],
             ret |-> t.length + 1]
       ELSE [tree |-> insertTiesLeft(t, v, t.right[p]).tree, ret |-> UNDEF]

\* insert() with the arguments of the comparison exchanged
RECURSIVE insertSwappedCmp(_, _, _)
insertSwappedCmp(t, v, p) ==
  LET id == FreshNode(t) IN
  IF ~Truthy(t.root)
  THEN [tree |-> [BSTNode(t, id, v, NULL) EXCEPT !.root = id,
                                                 !.length = @ + 1],
        ret |-> t.length + 1]
  ELSE IF Cmp(t, t.value[p], v)
  THEN IF t.left[p] = NULL
       THEN [tree |-> [BSTNode(t, id, v, p) EXCEPT !.left[p] = id,
                                                   !.length = @ + 1],
             ret |-> t.length + 1]
       ELSE [tree |-> insertSwappedCmp(t, v, t.left[p]).tree, ret |-> UNDEF]
  ELSE IF t.right[p] = NULL
       THEN [tree |-> [BSTNode(t, id, v, p) EXCEPT !.right[p] = id,
                                                   !.length = @ + 1],
             ret |-> t.length + 1]
       ELSE [tree |-> insertSwappedCmp(t, v, t.right[p]).tree, ret |-> UNDEF]

\* insert(value, parent): the tree afterwards and the value returned.  The
\* recursive calls are statements, not `return` expressions, so a call that
\* recurses falls off the end of the function.
RECURSIVE insert(_, _, _)
insert(t, v, p) ==
  LET id == FreshNode(t) IN
  IF ~Truthy(t.root)
  THEN [tree |-> [BSTNode(t, id, v, NULL) EXCEPT !.root = id,
                                                 !.length = @ + 1],
        ret |-> t.length + 1]
  ELSE IF Cmp(t, v, t.value[p])
  THEN IF t.left[p] = NULL
       THEN [tree |-> [BSTNode(t, id, v, p) EXCEPT !.left[p] = id,
                                                   !.length = @ + 1],
             ret |-> t.length + 1]
       ELSE [tree |-> insert(t, v, t.left[p]).tree, ret |-> UNDEF]
  ELSE IF t.right[p] = NULL
       THEN [tree |-> [BSTNode(t, id, v, p) EXCEPT !.right[p] = id,
                                                   !.length = @ + 1],
             ret |-> t.length + 1]
       ELSE [tree |-> insert(t, v, t.right[p]).tree, ret |-> UNDEF]

\* search() with the arguments of the comparison exchanged
RECURSIVE searchSwappedCmp(_, _, _)
searchSwappedCmp(t, v, node) ==
  IF ~Truthy(node) THEN node
  ELSE IF t.value[node] = v THEN node
  ELSE IF Cmp(t, t.value[node], v) THEN searchSwappedCmp(t, v, t.left[node])
  ELSE searchSwappedCmp(t, v, t.right[node])

\* search(value, node)
RECURSIVE search(_, _, _)
search(t, v, node) ==
  IF ~Truthy(node) THEN node
  ELSE IF t.value[node] = v THEN node
  ELSE IF Cmp(t, v, t.value[node]) THEN search(t, v, t.left[node])
  ELSE search(t, v, t.right[node])

\* remove(), lines 118-121: the root gets a transient parent
rootPlaceholder(t, node) ==
  LET ph == FreshPlaceholder(t) IN
  [t EXCEPT !.parent[node] = ph, !.left[ph] = t.root]

\* the two-child case without `node.value = nextHigher.value`
removeTwoChildrenNoCopy(t, node) ==
  LET nextHigher == getLeftmostDescendant(t, t.right[node])
      np == t.parent[nextHigher]
      nodeSide == IF t.left[np] = nextHigher THEN "left" ELSE "right"
      t2 == [t EXCEPT ![nodeSide][np] = t.right[nextHigher]]
  IN IF Truthy(t2.right[nextHigher])
     THEN [t2 EXCEPT !.parent[t2.right[nextHigher]] = t2.parent[nextHigher]]
     ELSE t2

\* remove(), lines 125-136: promote the next higher value
removeTwoChildren(t, node) ==
  LET nextHigher == getLeftmostDescendant(t, t.right[node])
      t1 == [t EXCEPT !.value[node] = t.value[nextHigher]]
      np == t1.parent[nextHigher]
      nodeSide == IF t1.left[np] = nextHigher THEN "left" ELSE "right"
      t2 == [t1 EXCEPT ![nodeSide][np] = t1.right[nextHigher]]
  IN IF Truthy(t2.right[nextHigher])
     THEN [t2 EXCEPT !.parent[t2.right[nextHigher]] = t2.parent[nextHigher]]
     ELSE t2

\* the one-child case testing `node.parent.right === node` for the left side
removeAtMostOneChildWrongSide(t, node) ==
  LET np == t.parent[node]
      nodeSide == IF t.right[np] = node THEN "left" ELSE "right"
  IN IF Truthy(t.left[node])
     THEN LET t1 == [t EXCEPT ![nodeSide][np] = t.left[node]]
          IN [t1 EXCEPT !.parent[t1.left[node]] = t1.parent[node]]
     ELSE LET t1 == [t EXCEPT ![nodeSide][np] = t.right[node]]
          IN IF Truthy(t1.right[node])
             THEN [t1 EXCEPT !.parent[t1.right[node]] = t1.parent[node]]
             ELSE t1

\* remove(), lines 137-152: replace the node by its only child, if any
removeAtMostOneChild(t, node) ==
  LET np == t.parent[node]
      nodeSide == IF t.left[np] = node THEN "left" ELSE "right"
  IN IF Truthy(t.left[node])
     THEN LET t1 == [t EXCEPT ![nodeSide][np] = t.left[node]]
          IN [t1 EXCEPT !.parent[t1.left[node]] = t1.parent[node]]
     ELSE LET t1 == [t EXCEPT ![nodeSide][np] = t.right[node]]
          IN IF Truthy(t1.right[node])
             THEN [t1 EXCEPT !.parent[t1.right[node]] = t1.parent[node]]
             ELSE t1

\* lines 118-154 without `if (rootParent) this.root = rootParent.left`
removeFoundNoRootUpdate(t, node) ==
  LET isRoot == (node = t.root)
      t1 == IF isRoot THEN rootPlaceholder(t, node) ELSE t
      t2 == IF Truthy(t1.left[node]) /\ Truthy(t1.right[node])
            THEN removeTwoChildren(t1, node)
            ELSE removeAtMostOneChild(t1, node)
      t4 == [t2 EXCEPT !.length = @ - 1]
  IN [tree |-> Collect(t4), ret |-> t4.length]

\* lines 118-154 without the decrement of this.length
removeFoundNoDecrement(t, node) ==
  LET isRoot == (node = t.root)
      t1 == IF isRoot THEN rootPlaceholder(t, node) ELSE t
      rootParent == IF isRoot THEN t1.parent[node] ELSE UNDEF
      t2 == IF Truthy(t1.left[node]) /\ Truthy(t1.right[node])
            THEN removeTwoChildren(t1, node)
            ELSE removeAtMostOneChild(t1, node)
      t3 == IF Truthy(rootParent)
            THEN [t2 EXCEPT !.root = t2.left[rootParent]]
            ELSE t2
  IN [tree |-> Collect(t3), ret |-> t3.length]

\* lines 118-154 with `return this.length--`
removeFoundPostDecrement(t, node) ==
  LET isRoot == (node = t.root)
      t1 == IF isRoot THEN rootPlaceholder(t, node) ELSE t
      rootParent == IF isRoot THEN t1.parent[node] ELSE UNDEF
      t2 == IF Truthy(t1.left[node]) /\ Truthy(t1.right[node])
            THEN removeTwoChildren(t1, node)
            ELSE removeAtMostOneChild(t1, node)
      t3 == IF Truthy(rootParent)
            THEN [t2 EXCEPT !.root = t2.left[rootParent]]
            ELSE t2
      t4 == [t3 EXCEPT !.length = @ - 1]
  IN [tree |-> Collect(t4), ret |-> t3.length]

\* remove(), lines 118-154: the node was found
removeFound(t, node) ==
  LET isRoot == (node = t.root)
      t1 == IF isRoot THEN rootPlaceholder(t, node) ELSE t
      rootParent == IF isRoot THEN t1.parent[node] ELSE UNDEF
      t2 == IF Truthy(t1.left[node]) /\ Truthy(t1.right[node])
            THEN removeTwoChildren(t1, node)
            ELSE removeAtMostOneChild(t1, node)
      t3 == IF Truthy(rootParent)
            THEN [t2 EXCEPT !.root = t2.left[rootParent]]
            ELSE t2
      t4 == [t3 EXCEPT !.length = @ - 1]
  IN [tree |-> Collect(t4), ret |-> t4.length]

\* remove() answering a miss with the count instead of null
removeMissReturnsCount(t, v) ==
  LET node == search(t, v, t.root) IN
  IF ~Truthy(node) THEN [tree |-> t, ret |-> t.length]
  ELSE removeFound(t, node)

\* remove(value): the tree afterwards and the value returned
remove(t, v) ==
  LET node == search(t, v, t.root) IN
  IF ~Truthy(node) THEN [tree |-> t, ret |-> NULL]
  ELSE removeFound(t, node)

\* toArray(node) for a node; toArray() of an empty tree reads null.left
RECURSIVE toArray(_, _)
toArray(t, node) ==
  LET l == IF Truthy(t.left[node]) THEN toArray(t, t.left[node]) ELSE <<>>
      r == IF Truthy(t.right[node]) THEN toArray(t, t.right[node]) ELSE <<>>
  IN l \o <<t.value[node]>> \o r

\* getPredecessor's loop written with getSuccessor's test
RECURSIVE walkUpLeftAsRight(_, _)
walkUpLeftAsRight(t, n) ==
  IF Truthy(t.parent[n]) /\ t.right[t.parent[n]] = n
  THEN walkUpLeftAsRight(t, t.parent[n]) ELSE n

\* the while loop of getPredecessor
RECURSIVE walkUpLeft(_, _)
walkUpLeft(t, n) ==
  IF Truthy(t.parent[n]) /\ t.left[t.parent[n]] = n
  THEN walkUpLeft(t, t.parent[n]) ELSE n

\* the while loop of getSuccessor
RECURSIVE walkUpRight(_, _)
walkUpRight(t, n) ==
  IF Truthy(t.parent[n]) /\ t.right[t.parent[n]] = n
  THEN walkUpRight(t, t.parent[n]) ELSE n

getPredecessor(t, v) ==
  LET foundNode == search(t, v, t.root) IN
  IF ~Truthy(foundNode) THEN NULL
  ELSE IF Truthy(t.left[foundNode])
  THEN t.value[getRightmostDescendant(t, t.left[foundNode])]
  ELSE LET f == walkUpLeft(t, foundNode)
       IN IF ~Truthy(t.parent[f]) THEN NULL ELSE t.value[t.parent[f]]

\* getSuccessor() taking the right child instead of its leftmost descendant
getSuccessorNoDescent(t, v) ==
  LET foundNode == search(t, v, t.root) IN
  IF ~Truthy(foundNode) THEN NULL
  ELSE IF Truthy(t.right[foundNode])
  THEN t.value[t.right[foundNode]]
  ELSE LET f == walkUpRight(t, foundNode)
       IN IF ~Truthy(t.parent[f]) THEN NULL ELSE t.value[t.parent[f]]

getSuccessor(t, v) ==
  LET foundNode == search(t, v, t.root) IN
  IF ~Truthy(foundNode) THEN NULL
  ELSE IF Truthy(t.right[foundNode])
  THEN t.value[getLeftmostDescendant(t, t.right[foundNode])]
  ELSE LET f == walkUpRight(t, foundNode)
       IN IF ~Truthy(t.parent[f]) THEN NULL ELSE t.value[t.parent[f]]

\* the constructor: list.forEach(item => this.insert(item))
RECURSIVE forEachInsert(_, _)
forEachInsert(t, list) ==
  IF list = <<>> THEN t
  ELSE forEachInsert(insert(t, Head(list), t.root).tree, Tail(list))

InitLists == UNION {[1..n -> Values] : n \in 0..MaxInitLen}

\* ---- the state machine ----
Store(t) ==
  /\ root' = t.root
  /\ length' = t.length
  /\ value' = t.value
  /\ parent' = t.parent
  /\ left' = t.left
  /\ right' = t.right
  /\ cmp' = t.cmp

Init ==
  \E list \in InitLists, c \in CmpKinds :
    LET t == forEachInsert(EmptyTree(c), list) IN
    /\ root = t.root /\ cmp = t.cmp /\ length = t.length
    /\ value = t.value /\ parent = t.parent
    /\ left = t.left /\ right = t.right
    /\ op = "new" /\ arg = NULL /\ ret = UNDEF /\ retArr = <<>>
    /\ pre = EmptyTree(c)
    /\ nIns = Len(list) /\ nRem = 0
    /\ roundTrip = FALSE

Insert ==
  \E v \in Values :
    /\ nIns < MaxInserts
    /\ FreeNodes(this) # {}
    /\ LET r == insert(this, v, root) IN
       /\ Store(r.tree)
       /\ ret' = r.ret
    /\ op' = "insert" /\ arg' = v /\ retArr' = <<>>
    /\ pre' = this
    /\ nIns' = nIns + 1
    /\ roundTrip' = FALSE
    /\ UNCHANGED nRem

Remove ==
  \E v \in Values :
    /\ LET r == remove(this, v) IN
       /\ Store(r.tree)
       /\ ret' = r.ret
       /\ nRem' = IF r.ret = NULL THEN nRem ELSE nRem + 1
    /\ op' = "remove" /\ arg' = v /\ retArr' = <<>>
    /\ pre' = this
    /\ roundTrip' = (op = "insert" /\ arg = v
                       /\ search(pre, v, pre.root) = NULL)
    /\ UNCHANGED nIns

Search ==
  \E v \in Values :
    /\ op' = "search" /\ arg' = v /\ retArr' = <<>>
    /\ ret' = search(this, v, root)
    /\ pre' = this
    /\ roundTrip' = FALSE
    /\ UNCHANGED <<root, cmp, length, value, parent, left, right, nIns, nRem>>

ToArray ==
  /\ op' = "toArray" /\ arg' = NULL
  /\ IF Truthy(root)
     THEN ret' = NULL /\ retArr' = toArray(this, root)
     ELSE ret' = THROWN /\ retArr' = <<>>
  /\ pre' = this
  /\ roundTrip' = FALSE
  /\ UNCHANGED <<root, cmp, length, value, parent, left, right, nIns, nRem>>

GetPredecessor ==
  \E v \in Values :
    /\ op' = "getPredecessor" /\ arg' = v /\ retArr' = <<>>
    /\ ret' = getPredecessor(this, v)
    /\ pre' = this
    /\ roundTrip' = FALSE
    /\ UNCHANGED <<root, cmp, length, value, parent, left, right, nIns, nRem>>

\* getSuccessor's loop with `=` for `===`: each step assigns parent.right
RECURSIVE walkUpRightAssigning(_, _)
walkUpRightAssigning(t, n) ==
  IF Truthy(t.parent[n])
  THEN walkUpRightAssigning([t EXCEPT !.right[t.parent[n]] = n], t.parent[n])
  ELSE t

GetSuccessorAssigning ==
  \E v \in Values :
    /\ op' = "getSuccessor" /\ arg' = v /\ retArr' = <<>>
    /\ ret' = getSuccessor(this, v)
    /\ pre' = this
    /\ roundTrip' = FALSE
    /\ LET f == search(this, v, root) IN
       Store(IF Truthy(f) /\ ~Truthy(right[f])
             THEN walkUpRightAssigning(this, f) ELSE this)
    /\ UNCHANGED <<nIns, nRem>>

GetSuccessor ==
  \E v \in Values :
    /\ op' = "getSuccessor" /\ arg' = v /\ retArr' = <<>>
    /\ ret' = getSuccessor(this, v)
    /\ pre' = this
    /\ roundTrip' = FALSE
    /\ UNCHANGED <<root, cmp, length, value, parent, left, right, nIns, nRem>>

Next ==
  \/ Insert
  \/ Remove
  \/ Search
  \/ ToArray
  \/ GetPredecessor
  \/ GetSuccessor

Spec == Init /\ [][Next]_vars

\* ---- vocabulary of the properties ----

\* nodes reachable from the root through left and right links
RECURSIVE Down(_, _)
Down(t, S) ==
  LET N == S \cup {x \in Objs : \E o \in S :
                     Truthy(x) /\ (x = t.left[o] \/ x = t.right[o])}
  IN IF N = S THEN S ELSE Down(t, N)

TreeNodes(t) == IF Truthy(t.root) THEN Down(t, {t.root}) ELSE {}

\* how often each value is stored
Copies(t, v) == Cardinality({n \in TreeNodes(t) : t.value[n] = v})

Elements(t) == IF Truthy(t.root) THEN toArray(t, t.root) ELSE <<>>

SortedUnder(t, arr) ==
  \A i \in 1..(Len(arr) - 1) : ~Cmp(t, arr[i + 1], arr[i])

Distinct(arr) ==
  \A i, j \in 1..Len(arr) : i # j => arr[i] # arr[j]

\* C1: whenever the tree is non-empty, toArray() is sorted ascending under
\* the ordering predicate: no adjacent pair (a, b) has less(b, a).
C1_SortedTraversal ==
  Truthy(root) => SortedUnder(this, toArray(this, root))

C1_Witness ==
  /\ op = "toArray" /\ ret # THROWN /\ nRem >= 1
  /\ retArr = toArray(this, root)
  /\ Len(retArr) >= 3
  /\ retArr[1] # retArr[3]

\* C2: the element count equals the number of nodes reachable from the root
\* via left/right links, and the number of insert calls minus the number of
\* remove calls that found their value.
C2_CountConsistent ==
  /\ length = Cardinality(TreeNodes(this))
  /\ length = nIns - nRem

C2_Witness ==
  /\ op = "remove" /\ ret # NULL
  /\ nIns >= 3 /\ nRem >= 2 /\ length >= 1

\* C3: every insert(value) returns the count before the call plus one,
\* however deep the new node is attached.
C3_InsertReturnsCount ==
  op = "insert" => ret = pre.length + 1

\* C4: the root's parent is none and every other live node's parent is the
\* live node whose left or right link points to it.
C4_ParentsExact ==
  /\ Truthy(root) => parent[root] = NULL
  /\ \A n \in TreeNodes(this) \ {root} :
       /\ parent[n] \in TreeNodes(this)
       /\ left[parent[n]] = n \/ right[parent[n]] = n

\* C5: remove(value) for a value search does not find returns null, which is
\* no count, and leaves the root, every node's fields and the count as they
\* were.
C5_RemoveMissing ==
  (op = "remove" /\ ~Truthy(search(pre, arg, pre.root))) =>
     /\ ret = NULL
     /\ ret \notin Nat
     /\ this = pre

C5_Witness ==
  /\ op = "remove" /\ ret = NULL
  /\ ~Truthy(search(pre, arg, pre.root))
  /\ length >= 2

\* C6: a remove(v) that finds v takes exactly one copy of v out of the tree
\* and nothing else, and remove(v) finds v exactly when the tree holds a
\* copy, so n copies allow n successful removals and no more.
C6_RemovesOneCopy ==
  op = "remove" =>
     /\ ret # NULL <=> Copies(pre, arg) > 0
     /\ ret # NULL =>
          \A x \in Values :
            Copies(this, x) = Copies(pre, x) - (IF x = arg THEN 1 ELSE 0)

C6_Witness ==
  /\ op = "remove" /\ ret # NULL
  /\ Copies(pre, arg) >= 2
  /\ LET n == search(pre, arg, pre.root)
     IN Truthy(pre.left[n]) /\ Truthy(pre.right[n])

\* C7: a remove(value) that finds its value returns the count before the
\* call minus one, a number and therefore not the not-found signal.
C7_RemoveReturnsCount ==
  (op = "remove" /\ Truthy(search(pre, arg, pre.root))) =>
     /\ ret = pre.length - 1
     /\ ret \in Nat
     /\ ret # NULL

C7_Witness ==
  /\ op = "remove" /\ Truthy(search(pre, arg, pre.root))
  /\ pre.length = 1 /\ ret = 0

\* C8: in a non-empty tree getSuccessor(max) for the largest element returns
\* null.
C8_SuccessorOfMax ==
  (op = "getSuccessor" /\ Truthy(root)
     /\ arg = Elements(this)[Len(Elements(this))]) => ret = NULL

\* C9: in a non-empty tree getPredecessor(min) for the smallest element
\* returns null.
C9_PredecessorOfMin ==
  (op = "getPredecessor" /\ Truthy(root) /\ arg = Elements(this)[1]) =>
     ret = NULL

C9_Witness ==
  /\ op = "getPredecessor" /\ Truthy(root)
  /\ arg = Elements(this)[1] /\ ret = NULL
  /\ parent[root] \in Placeholders
  /\ search(this, arg, root) # root

\* C10: in a tree of distinct values getPredecessor(v) is the element just
\* before v in toArray() and getSuccessor(v) the element just after it,
\* whenever that neighbour exists.
C10_Neighbours ==
  LET arr == Elements(this) IN
  Distinct(arr) =>
    \A i \in 1..Len(arr) :
      /\ (op = "getPredecessor" /\ arg = arr[i] /\ i > 1) => ret = arr[i - 1]
      /\ (op = "getSuccessor" /\ arg = arr[i] /\ i < Len(arr)) =>
            ret = arr[i + 1]

C10_Witness ==
  LET arr == Elements(this) IN
  /\ Distinct(arr) /\ Len(arr) >= 3
  /\ op = "getSuccessor" /\ ret = arr[3] /\ arg = arr[2]
  /\ ~Truthy(right[search(this, arg, root)])
  /\ parent[root] \in Placeholders

\* C11: in a tree without duplicates, for every present v, a getPredecessor(v)
\* that is not null has v as its getSuccessor, and a getSuccessor(v) that is
\* not null has v as its getPredecessor.
C11_Duality ==
  (Distinct(Elements(this)) /\ Copies(this, arg) > 0) =>
     /\ (op = "getPredecessor" /\ ret # NULL) => getSuccessor(this, ret) = arg
     /\ (op = "getSuccessor" /\ ret # NULL) => getPredecessor(this, ret) = arg

\* C12: after insert(v), search(v) returns a node whose value is v; after a
\* remove(v) that directly follows, search(v) returns null provided v was
\* not in the tree before the insert.
C12_RoundTrip ==
  /\ op = "insert" =>
       LET n == search(this, arg, root) IN Truthy(n) /\ value[n] = arg
  /\ (op = "remove" /\ roundTrip) =>
       /\ ret # NULL
       /\ search(this, arg, root) = NULL

C12_Witness ==
  /\ op = "remove" /\ roundTrip /\ ret # NULL
  /\ search(this, arg, root) = NULL
  /\ length >= 2
  /\ LET n == search(pre, arg, pre.root)
     IN n # pre.root /\ pre.parent[n] # pre.root

\* C13: no call ends in a fatal error; toArray() of an empty tree completes
\* and yields the empty sequence, as the count 0 says.
C13_NoFatalError ==
  /\ ret # THROWN
  /\ (op = "toArray" /\ length = 0) => retArr = <<>>

\* C14: search(v) returns a node whose value is v exactly when v occurs in
\* toArray(), and null otherwise.
C14_SearchFindsPresent ==
  op = "search" =>
     IF \E i \in 1..Len(Elements(this)) : Elements(this)[i] = arg
     THEN ret \in TreeNodes(this) /\ value[ret] = arg
     ELSE ret = NULL

C14_Witness ==
  /\ op = "search" /\ ret \in TreeNodes(this) /\ value[ret] = arg
  /\ ret # root /\ parent[ret] # root
  /\ nRem >= 1
  /\ parent[root] \in Placeholders

\* the nodes of the subtree below a link (none for an empty link)
SubtreeNodes(t, n) == IF Truthy(n) THEN Down(t, {n}) ELSE {}

\* C15: for every node n, every value in n.left's subtree is less than
\* n.value and no value in n.right's subtree is less than n.value.
C15_BSTProperty ==
  \A n \in TreeNodes(this) :
    /\ \A x \in SubtreeNodes(this, left[n]) : Cmp(this, value[x], value[n])
    /\ \A y \in SubtreeNodes(this, right[n]) : ~Cmp(this, value[y], value[n])

\* a two-child removal promoted a value of which another copy stays below
C15_Witness ==
  /\ op = "remove" /\ ret # NULL
  /\ LET n == search(pre, arg, pre.root) IN
     /\ Truthy(pre.left[n]) /\ Truthy(pre.right[n])
     /\ value[n] # arg
     /\ \E y \in SubtreeNodes(this, right[n]) : value[y] = value[n]

\* the node remove(v) works on, as found before the call
Target == search(pre, arg, pre.root)

TwoChildRemoval ==
  /\ op = "remove" /\ Truthy(Target)
  /\ Truthy(pre.left[Target]) /\ Truthy(pre.right[Target])

\* C16: a remove(v) whose target has two children leaves the target in place
\* (same parent, same left child) with the value of the leftmost node of its
\* right subtree; that successor is detached, the slot of its former parent
\* holds the successor's right child, and that child's parent, if the child
\* exists, is the successor's former parent.
C16_TwoChildRemoval ==
  TwoChildRemoval =>
    LET n == Target
        s == getLeftmostDescendant(pre, pre.right[n])
        sp == pre.parent[s]
        c == pre.right[s]
    IN /\ n \in TreeNodes(this)
       /\ parent[n] = pre.parent[n]
       /\ left[n] = pre.left[n]
       /\ value[n] = pre.value[s]
       /\ s \notin TreeNodes(this)
       /\ IF s = pre.right[n] THEN sp = n /\ right[sp] = c
                              ELSE left[sp] = c
       /\ Truthy(c) => parent[c] = sp

\* C17: removing a root with at most one child makes that child the root
\* (none if the root was a leaf); the root is none exactly when the count
\* is 0.
C17_RootAfterRemoval ==
  /\ root = NULL <=> length = 0
  /\ (op = "remove" /\ Truthy(Target) /\ Target = pre.root
        /\ ~(Truthy(pre.left[Target]) /\ Truthy(pre.right[Target]))) =>
       root = (IF Truthy(pre.left[Target]) THEN pre.left[Target]
               ELSE pre.right[Target])

C17_Witness ==
  /\ op = "remove" /\ Truthy(Target) /\ Target = pre.root
  /\ ~Truthy(pre.left[Target]) /\ Truthy(pre.right[Target])
  /\ root = pre.right[Target]
  /\ pre.parent[pre.root] \in Placeholders
  /\ length >= 2

\* the node below which insert(v) attaches, descending from p
RECURSIVE AttachPoint(_, _, _)
AttachPoint(t, v, p) ==
  LET next == IF Cmp(t, v, t.value[p]) THEN t.left[p] ELSE t.right[p]
  IN IF Truthy(next) THEN AttachPoint(t, v, next) ELSE p

\* C18: insert(v) on a non-empty tree attaches exactly one new leaf holding
\* v, its parent the node whose empty slot it fills, where the descent (left
\* when less(v, node.value), right otherwise) ends; the root and every
\* earlier node's value, parent and other links stay as they were.
C18_InsertFrame ==
  (op = "insert" /\ Truthy(pre.root)) =>
    LET old == TreeNodes(pre)
        new == TreeNodes(this) \ old
        p == AttachPoint(pre, arg, pre.root)
        goesLeft == Cmp(pre, arg, pre.value[p])
    IN /\ root = pre.root
       /\ old \subseteq TreeNodes(this)
       /\ Cardinality(new) = 1
       /\ \A x \in new :
            /\ value[x] = arg /\ left[x] = NULL /\ right[x] = NULL
            /\ parent[x] = p
            /\ IF goesLeft THEN left[p] = x ELSE right[p] = x
       /\ \A n \in old :
            /\ value[n] = pre.value[n]
            /\ parent[n] = pre.parent[n]
            /\ (n # p \/ ~goesLeft) => left[n] = pre.left[n]
            /\ (n # p \/ goesLeft) => right[n] = pre.right[n]

C18_Witness ==
  /\ op = "insert" /\ Truthy(pre.root)
  /\ LET p == AttachPoint(pre, arg, pre.root) IN
     /\ p # pre.root /\ pre.parent[p] # pre.root
     /\ left[p] \notin TreeNodes(pre) /\ Truthy(left[p])

\* C19: search, toArray, getPredecessor and getSuccessor leave the root, the
\* count and every node's value, left, right and parent as they were.
C19_ReadsDoNotMutate ==
  op \in {"search", "toArray", "getPredecessor", "getSuccessor"} =>
     this = pre

C19_Witness ==
  /\ op = "getSuccessor" /\ this = pre
  /\ length >= 3 /\ nRem >= 1
  /\ LET f == search(this, arg, root)
     IN Truthy(f) /\ ~Truthy(right[f]) /\ f # root

====
